---- MODULE Spec2Model ----
(***************************************************************************)
(* A model of service/models.py: the Product record, its validation and    *)
(* serialization routine (serialize / deserialize), the persistence       *)
(* methods (create / update / delete), the finders and init_db.            *)
(*                                                                         *)
(* Python values are records with a type tag; strings are sequences of     *)
(* one-character strings so that str(), strip() and the Decimal            *)
(* constructor are computed on their characters. A character above U+00FF  *)
(* is written as its escape, the six characters \u0661 for ARABIC-INDIC     *)
(* DIGIT ONE, \U and eight hexadecimal digits above U+FFFF.                 *)
(***************************************************************************)
EXTENDS Integers, Sequences, FiniteSets, TLC

(***************************************************************************)
(* Bounds of the model.                                                    *)
(***************************************************************************)
NObj == 2          \* Product objects the caller constructs
MaxInit == 3       \* init_db invocations that are followed

(***************************************************************************)
(* Python values.                                                          *)
(***************************************************************************)
Val(t, s, sign, coef, exp) ==
    [t |-> t, s |-> s, sign |-> sign, coef |-> coef, exp |-> exp]

NoneV == Val("NoneType", <<>>, 0, 0, 0)
ListV == Val("list", <<>>, 0, 0, 0)
StrV(s) == Val("str", s, 0, 0, 0)
BoolV(b) == Val("bool", <<>>, 0, IF b THEN 1 ELSE 0, 0)
IntV(sign, n) == Val("int", <<>>, sign, n, 0)
FloatV(sign, coef, exp) == Val("float", <<>>, sign, coef, exp)
DecV(sign, coef, exp) == Val("Decimal", <<>>, sign, coef, exp)
\* the special values of a Decimal or a float: kind is the exponent letter of
\* Decimal.as_tuple(), "F" an infinity, "n" a quiet NaN, "N" a signalling NaN;
\* payload is the diagnostic number of a NaN
SpecialV(t, kind, sign, payload) == Val(t, <<kind>>, sign, payload, 0)
IsSpecial(v) == v.t \in {"Decimal", "float"} /\ v.s # <<>>
\* a member of the Category enumeration, by name
EnumV(name) == Val("Category", name, 0, 0, 0)
\* any other attribute of the Category class object (a docstring, a method...)
AttrV(name) == Val("attribute", name, 0, 0, 0)

TRUEV == BoolV(TRUE)
FALSEV == BoolV(FALSE)

\* isinstance(v, types): bool is a subclass of int
Bases(t) == IF t = "bool" THEN {"bool", "int"} ELSE {t}
IsInstance(v, types) == Bases(v.t) \cap types # {}

(***************************************************************************)
(* Characters and integers.                                                *)
(***************************************************************************)
\* the digits str() writes
DigitChars == <<"0", "1", "2", "3", "4", "5", "6", "7", "8", "9">>
\* The digits the Decimal constructor reads: every decimal digit of Unicode
\* (category Nd, Unicode 14.0 as in CPython 3.11). DigitSets[v + 1] holds the
\* characters whose value is v.
DigitSets == <<
    {"0", "\\u0660", "\\u06f0", "\\u07c0", "\\u0966", "\\u09e6", "\\u0a66", "\\u0ae6",
     "\\u0b66", "\\u0be6", "\\u0c66", "\\u0ce6", "\\u0d66", "\\u0de6", "\\u0e50", "\\u0ed0",
     "\\u0f20", "\\u1040", "\\u1090", "\\u17e0", "\\u1810", "\\u1946", "\\u19d0", "\\u1a80",
     "\\u1a90", "\\u1b50", "\\u1bb0", "\\u1c40", "\\u1c50", "\\ua620", "\\ua8d0", "\\ua900",
     "\\ua9d0", "\\ua9f0", "\\uaa50", "\\uabf0", "\\uff10", "\\U000104a0", "\\U00010d30",
     "\\U00011066", "\\U000110f0", "\\U00011136", "\\U000111d0", "\\U000112f0", "\\U00011450",
     "\\U000114d0", "\\U00011650", "\\U000116c0", "\\U00011730", "\\U000118e0", "\\U00011950",
     "\\U00011c50", "\\U00011d50", "\\U00011da0", "\\U00016a60", "\\U00016ac0", "\\U00016b50",
     "\\U0001d7ce", "\\U0001d7d8", "\\U0001d7e2", "\\U0001d7ec", "\\U0001d7f6", "\\U0001e140",
     "\\U0001e2f0", "\\U0001e950", "\\U0001fbf0"},
    {"1", "\\u0661", "\\u06f1", "\\u07c1", "\\u0967", "\\u09e7", "\\u0a67", "\\u0ae7",
     "\\u0b67", "\\u0be7", "\\u0c67", "\\u0ce7", "\\u0d67", "\\u0de7", "\\u0e51", "\\u0ed1",
     "\\u0f21", "\\u1041", "\\u1091", "\\u17e1", "\\u1811", "\\u1947", "\\u19d1", "\\u1a81",
     "\\u1a91", "\\u1b51", "\\u1bb1", "\\u1c41", "\\u1c51", "\\ua621", "\\ua8d1", "\\ua901",
     "\\ua9d1", "\\ua9f1", "\\uaa51", "\\uabf1", "\\uff11", "\\U000104a1", "\\U00010d31",
     "\\U00011067", "\\U000110f1", "\\U00011137", "\\U000111d1", "\\U000112f1", "\\U00011451",
     "\\U000114d1", "\\U00011651", "\\U000116c1", "\\U00011731", "\\U000118e1", "\\U00011951",
     "\\U00011c51", "\\U00011d51", "\\U00011da1", "\\U00016a61", "\\U00016ac1", "\\U00016b51",
     "\\U0001d7cf", "\\U0001d7d9", "\\U0001d7e3", "\\U0001d7ed", "\\U0001d7f7", "\\U0001e141",
     "\\U0001e2f1", "\\U0001e951", "\\U0001fbf1"},
    {"2", "\\u0662", "\\u06f2", "\\u07c2", "\\u0968", "\\u09e8", "\\u0a68", "\\u0ae8",
     "\\u0b68", "\\u0be8", "\\u0c68", "\\u0ce8", "\\u0d68", "\\u0de8", "\\u0e52", "\\u0ed2",
     "\\u0f22", "\\u1042", "\\u1092", "\\u17e2", "\\u1812", "\\u1948", "\\u19d2", "\\u1a82",
     "\\u1a92", "\\u1b52", "\\u1bb2", "\\u1c42", "\\u1c52", "\\ua622", "\\ua8d2", "\\ua902",
     "\\ua9d2", "\\ua9f2", "\\uaa52", "\\uabf2", "\\uff12", "\\U000104a2", "\\U00010d32",
     "\\U00011068", "\\U000110f2", "\\U00011138", "\\U000111d2", "\\U000112f2", "\\U00011452",
     "\\U000114d2", "\\U00011652", "\\U000116c2", "\\U00011732", "\\U000118e2", "\\U00011952",
     "\\U00011c52", "\\U00011d52", "\\U00011da2", "\\U00016a62", "\\U00016ac2", "\\U00016b52",
     "\\U0001d7d0", "\\U0001d7da", "\\U0001d7e4", "\\U0001d7ee", "\\U0001d7f8", "\\U0001e142",
     "\\U0001e2f2", "\\U0001e952", "\\U0001fbf2"},
    {"3", "\\u0663", "\\u06f3", "\\u07c3", "\\u0969", "\\u09e9", "\\u0a69", "\\u0ae9",
     "\\u0b69", "\\u0be9", "\\u0c69", "\\u0ce9", "\\u0d69", "\\u0de9", "\\u0e53", "\\u0ed3",
     "\\u0f23", "\\u1043", "\\u1093", "\\u17e3", "\\u1813", "\\u1949", "\\u19d3", "\\u1a83",
     "\\u1a93", "\\u1b53", "\\u1bb3", "\\u1c43", "\\u1c53", "\\ua623", "\\ua8d3", "\\ua903",
     "\\ua9d3", "\\ua9f3", "\\uaa53", "\\uabf3", "\\uff13", "\\U000104a3", "\\U00010d33",
     "\\U00011069", "\\U000110f3", "\\U00011139", "\\U000111d3", "\\U000112f3", "\\U00011453",
     "\\U000114d3", "\\U00011653", "\\U000116c3", "\\U00011733", "\\U000118e3", "\\U00011953",
     "\\U00011c53", "\\U00011d53", "\\U00011da3", "\\U00016a63", "\\U00016ac3", "\\U00016b53",
     "\\U0001d7d1", "\\U0001d7db", "\\U0001d7e5", "\\U0001d7ef", "\\U0001d7f9", "\\U0001e143",
     "\\U0001e2f3", "\\U0001e953", "\\U0001fbf3"},
    {"4", "\\u0664", "\\u06f4", "\\u07c4", "\\u096a", "\\u09ea", "\\u0a6a", "\\u0aea",
     "\\u0b6a", "\\u0bea", "\\u0c6a", "\\u0cea", "\\u0d6a", "\\u0dea", "\\u0e54", "\\u0ed4",
     "\\u0f24", "\\u1044", "\\u1094", "\\u17e4", "\\u1814", "\\u194a", "\\u19d4", "\\u1a84",
     "\\u1a94", "\\u1b54", "\\u1bb4", "\\u1c44", "\\u1c54", "\\ua624", "\\ua8d4", "\\ua904",
     "\\ua9d4", "\\ua9f4", "\\uaa54", "\\uabf4", "\\uff14", "\\U000104a4", "\\U00010d34",
     "\\U0001106a", "\\U000110f4", "\\U0001113a", "\\U000111d4", "\\U000112f4", "\\U00011454",
     "\\U000114d4", "\\U00011654", "\\U000116c4", "\\U00011734", "\\U000118e4", "\\U00011954",
     "\\U00011c54", "\\U00011d54", "\\U00011da4", "\\U00016a64", "\\U00016ac4", "\\U00016b54",
     "\\U0001d7d2", "\\U0001d7dc", "\\U0001d7e6", "\\U0001d7f0", "\\U0001d7fa", "\\U0001e144",
     "\\U0001e2f4", "\\U0001e954", "\\U0001fbf4"},
    {"5", "\\u0665", "\\u06f5", "\\u07c5", "\\u096b", "\\u09eb", "\\u0a6b", "\\u0aeb",
     "\\u0b6b", "\\u0beb", "\\u0c6b", "\\u0ceb", "\\u0d6b", "\\u0deb", "\\u0e55", "\\u0ed5",
     "\\u0f25", "\\u1045", "\\u1095", "\\u17e5", "\\u1815", "\\u194b", "\\u19d5", "\\u1a85",
     "\\u1a95", "\\u1b55", "\\u1bb5", "\\u1c45", "\\u1c55", "\\ua625", "\\ua8d5", "\\ua905",
     "\\ua9d5", "\\ua9f5", "\\uaa55", "\\uabf5", "\\uff15", "\\U000104a5", "\\U00010d35",
     "\\U0001106b", "\\U000110f5", "\\U0001113b", "\\U000111d5", "\\U000112f5", "\\U00011455",
     "\\U000114d5", "\\U00011655", "\\U000116c5", "\\U00011735", "\\U000118e5", "\\U00011955",
     "\\U00011c55", "\\U00011d55", "\\U00011da5", "\\U00016a65", "\\U00016ac5", "\\U00016b55",
     "\\U0001d7d3", "\\U0001d7dd", "\\U0001d7e7", "\\U0001d7f1", "\\U0001d7fb", "\\U0001e145",
     "\\U0001e2f5", "\\U0001e955", "\\U0001fbf5"},
    {"6", "\\u0666", "\\u06f6", "\\u07c6", "\\u096c", "\\u09ec", "\\u0a6c", "\\u0aec",
     "\\u0b6c", "\\u0bec", "\\u0c6c", "\\u0cec", "\\u0d6c", "\\u0dec", "\\u0e56", "\\u0ed6",
     "\\u0f26", "\\u1046", "\\u1096", "\\u17e6", "\\u1816", "\\u194c", "\\u19d6", "\\u1a86",
     "\\u1a96", "\\u1b56", "\\u1bb6", "\\u1c46", "\\u1c56", "\\ua626", "\\ua8d6", "\\ua906",
     "\\ua9d6", "\\ua9f6", "\\uaa56", "\\uabf6", "\\uff16", "\\U000104a6", "\\U00010d36",
     "\\U0001106c", "\\U000110f6", "\\U0001113c", "\\U000111d6", "\\U000112f6", "\\U00011456",
     "\\U000114d6", "\\U00011656", "\\U000116c6", "\\U00011736", "\\U000118e6", "\\U00011956",
     "\\U00011c56", "\\U00011d56", "\\U00011da6", "\\U00016a66", "\\U00016ac6", "\\U00016b56",
     "\\U0001d7d4", "\\U0001d7de", "\\U0001d7e8", "\\U0001d7f2", "\\U0001d7fc", "\\U0001e146",
     "\\U0001e2f6", "\\U0001e956", "\\U0001fbf6"},
    {"7", "\\u0667", "\\u06f7", "\\u07c7", "\\u096d", "\\u09ed", "\\u0a6d", "\\u0aed",
     "\\u0b6d", "\\u0bed", "\\u0c6d", "\\u0ced", "\\u0d6d", "\\u0ded", "\\u0e57", "\\u0ed7",
     "\\u0f27", "\\u1047", "\\u1097", "\\u17e7", "\\u1817", "\\u194d", "\\u19d7", "\\u1a87",
     "\\u1a97", "\\u1b57", "\\u1bb7", "\\u1c47", "\\u1c57", "\\ua627", "\\ua8d7", "\\ua907",
     "\\ua9d7", "\\ua9f7", "\\uaa57", "\\uabf7", "\\uff17", "\\U000104a7", "\\U00010d37",
     "\\U0001106d", "\\U000110f7", "\\U0001113d", "\\U000111d7", "\\U000112f7", "\\U00011457",
     "\\U000114d7", "\\U00011657", "\\U000116c7", "\\U00011737", "\\U000118e7", "\\U00011957",
     "\\U00011c57", "\\U00011d57", "\\U00011da7", "\\U00016a67", "\\U00016ac7", "\\U00016b57",
     "\\U0001d7d5", "\\U0001d7df", "\\U0001d7e9", "\\U0001d7f3", "\\U0001d7fd", "\\U0001e147",
     "\\U0001e2f7", "\\U0001e957", "\\U0001fbf7"},
    {"8", "\\u0668", "\\u06f8", "\\u07c8", "\\u096e", "\\u09ee", "\\u0a6e", "\\u0aee",
     "\\u0b6e", "\\u0bee", "\\u0c6e", "\\u0cee", "\\u0d6e", "\\u0dee", "\\u0e58", "\\u0ed8",
     "\\u0f28", "\\u1048", "\\u1098", "\\u17e8", "\\u1818", "\\u194e", "\\u19d8", "\\u1a88",
     "\\u1a98", "\\u1b58", "\\u1bb8", "\\u1c48", "\\u1c58", "\\ua628", "\\ua8d8", "\\ua908",
     "\\ua9d8", "\\ua9f8", "\\uaa58", "\\uabf8", "\\uff18", "\\U000104a8", "\\U00010d38",
     "\\U0001106e", "\\U000110f8", "\\U0001113e", "\\U000111d8", "\\U000112f8", "\\U00011458",
     "\\U000114d8", "\\U00011658", "\\U000116c8", "\\U00011738", "\\U000118e8", "\\U00011958",
     "\\U00011c58", "\\U00011d58", "\\U00011da8", "\\U00016a68", "\\U00016ac8", "\\U00016b58",
     "\\U0001d7d6", "\\U0001d7e0", "\\U0001d7ea", "\\U0001d7f4", "\\U0001d7fe", "\\U0001e148",
     "\\U0001e2f8", "\\U0001e958", "\\U0001fbf8"},
    {"9", "\\u0669", "\\u06f9", "\\u07c9", "\\u096f", "\\u09ef", "\\u0a6f", "\\u0aef",
     "\\u0b6f", "\\u0bef", "\\u0c6f", "\\u0cef", "\\u0d6f", "\\u0def", "\\u0e59", "\\u0ed9",
     "\\u0f29", "\\u1049", "\\u1099", "\\u17e9", "\\u1819", "\\u194f", "\\u19d9", "\\u1a89",
     "\\u1a99", "\\u1b59", "\\u1bb9", "\\u1c49", "\\u1c59", "\\ua629", "\\ua8d9", "\\ua909",
     "\\ua9d9", "\\ua9f9", "\\uaa59", "\\uabf9", "\\uff19", "\\U000104a9", "\\U00010d39",
     "\\U0001106f", "\\U000110f9", "\\U0001113f", "\\U000111d9", "\\U000112f9", "\\U00011459",
     "\\U000114d9", "\\U00011659", "\\U000116c9", "\\U00011739", "\\U000118e9", "\\U00011959",
     "\\U00011c59", "\\U00011d59", "\\U00011da9", "\\U00016a69", "\\U00016ac9", "\\U00016b59",
     "\\U0001d7d7", "\\U0001d7e1", "\\U0001d7eb", "\\U0001d7f5", "\\U0001d7ff", "\\U0001e149",
     "\\U0001e2f9", "\\U0001e959", "\\U0001fbf9"}>>
IsDigit(ch) == \E i \in 1..10 : ch \in DigitSets[i]
DigitVal(ch) == (CHOOSE i \in 1..10 : ch \in DigitSets[i]) - 1
\* the characters str.strip() and the Decimal constructor treat as whitespace
\* (str.isspace)
Whitespace == {"\t", "\n", "", "\f", "\r", "", "", "", "", " ", "", " ", "\\u1680",
               "\\u2000", "\\u2001", "\\u2002", "\\u2003", "\\u2004", "\\u2005", "\\u2006",
               "\\u2007", "\\u2008", "\\u2009", "\\u200a", "\\u2028", "\\u2029", "\\u202f",
               "\\u205f", "\\u3000"}

Pow10(n) == IF n <= 0 THEN 1 ELSE
    LET RECURSIVE P(_)
        P(k) == IF k = 0 THEN 1 ELSE 10 * P(k - 1)
    IN P(n)

RECURSIVE IntStr(_)
IntStr(n) == IF n < 10 THEN <<DigitChars[n + 1]>>
             ELSE IntStr(n \div 10) \o <<DigitChars[(n % 10) + 1]>>

Zeros(n) == [i \in 1..n |-> "0"]

\* str.strip(chars)
RECURSIVE LStrip(_, _)
LStrip(s, chars) == IF s # <<>> /\ Head(s) \in chars THEN LStrip(Tail(s), chars) ELSE s
RECURSIVE RStrip(_, _)
RStrip(s, chars) == IF s # <<>> /\ s[Len(s)] \in chars
                    THEN RStrip(SubSeq(s, 1, Len(s) - 1), chars) ELSE s
Strip(s, chars) == RStrip(LStrip(s, chars), chars)

RECURSIVE Without(_, _)
Without(s, ch) == IF s = <<>> THEN <<>>
                  ELSE IF Head(s) = ch THEN Without(Tail(s), ch)
                  ELSE <<Head(s)>> \o Without(Tail(s), ch)

(***************************************************************************)
(* decimal.Decimal: the constructor from a string and str().               *)
(***************************************************************************)
InvalidOperation == [ok |-> FALSE, v |-> NoneV]
Parsed(sign, coef, exp) == [ok |-> TRUE, v |-> DecV(sign, coef, exp)]

\* letters are matched without regard to case
UpperChars == <<"A", "B", "C", "D", "E", "F", "G", "H", "I", "J", "K", "L", "M",
                "N", "O", "P", "Q", "R", "S", "T", "U", "V", "W", "X", "Y", "Z">>
LowerChars == <<"a", "b", "c", "d", "e", "f", "g", "h", "i", "j", "k", "l", "m",
                "n", "o", "p", "q", "r", "s", "t", "u", "v", "w", "x", "y", "z">>
Lower(ch) == IF \E i \in 1..26 : UpperChars[i] = ch
             THEN LowerChars[CHOOSE i \in 1..26 : UpperChars[i] = ch] ELSE ch

\* the number a run of digits from the i-th character to the end stands for,
\* -1 when another character is among them
RECURSIVE Payload(_, _, _)
Payload(s, i, n) ==
    IF i > Len(s) THEN n
    ELSE IF IsDigit(s[i]) THEN Payload(s, i + 1, 10 * n + DigitVal(s[i]))
    ELSE 0 - 1

\* does the word w stand at the i-th character of s, whatever the case
RECURSIVE WordAt(_, _, _, _)
WordAt(s, i, w, k) ==
    IF k > Len(w) THEN TRUE
    ELSE IF i + k - 1 > Len(s) THEN FALSE
    ELSE Lower(s[i + k - 1]) = w[k] /\ WordAt(s, i, w, k + 1)

Inf == <<"i", "n", "f">>
Infinity == <<"i", "n", "f", "i", "n", "i", "t", "y">>
NaN == <<"n", "a", "n">>
SNaN == <<"s", "n", "a", "n">>

\* the special values after the sign: Inf, Infinity, NaN[digits], sNaN[digits]
ScanSpecial(s, i, sign) ==
    IF (WordAt(s, i, Inf, 1) /\ Len(s) = i + 2) \/ (WordAt(s, i, Infinity, 1) /\ Len(s) = i + 7)
    THEN [ok |-> TRUE, v |-> SpecialV("Decimal", "F", sign, 0)]
    ELSE IF WordAt(s, i, NaN, 1) /\ Payload(s, i + 3, 0) >= 0
    THEN [ok |-> TRUE, v |-> SpecialV("Decimal", "n", sign, Payload(s, i + 3, 0))]
    ELSE IF WordAt(s, i, SNaN, 1) /\ Payload(s, i + 4, 0) >= 0
    THEN [ok |-> TRUE, v |-> SpecialV("Decimal", "N", sign, Payload(s, i + 4, 0))]
    ELSE InvalidOperation

\* The scan of a numeric literal, one character at a time:
\* [sign] (digits [. [digits]] | . digits) [(e|E) [sign] digits]
\* or, after the sign, one of the special values.
\* q is the part of the literal the scan is in, acc what it has read.
ScanStart == [sign |-> 0, coef |-> 0, nd |-> 0, frac |-> 0, eneg |-> FALSE, e |-> 0, ed |-> 0]

ScanEnd(q, acc) ==
    IF acc.nd > 0 /\ (q \in {"int", "frac"} \/ (q = "exp" /\ acc.ed > 0))
    THEN Parsed(acc.sign, acc.coef, (IF acc.eneg THEN 0 - acc.e ELSE acc.e) - acc.frac)
    ELSE InvalidOperation

RECURSIVE Scan(_, _, _, _)
Scan(s, i, q, acc) ==
    IF i > Len(s) THEN ScanEnd(q, acc)
    ELSE CASE q = "sign" ->
                IF s[i] \in {"+", "-"}
                THEN Scan(s, i + 1, "first", [acc EXCEPT !.sign = IF s[i] = "-" THEN 1 ELSE 0])
                ELSE Scan(s, i, "first", acc)
           [] q = "first" ->
                IF Lower(s[i]) \in {"i", "n", "s"} THEN ScanSpecial(s, i, acc.sign)
                ELSE Scan(s, i, "int", acc)
           [] q = "int" ->
                IF IsDigit(s[i])
                THEN Scan(s, i + 1, "int",
                          [acc EXCEPT !.coef = 10 * @ + DigitVal(s[i]), !.nd = @ + 1])
                ELSE IF s[i] = "." THEN Scan(s, i + 1, "frac", acc)
                ELSE IF s[i] \in {"e", "E"} THEN Scan(s, i + 1, "esign", acc)
                ELSE InvalidOperation
           [] q = "frac" ->
                IF IsDigit(s[i])
                THEN Scan(s, i + 1, "frac",
                          [acc EXCEPT !.coef = 10 * @ + DigitVal(s[i]), !.nd = @ + 1,
                                      !.frac = @ + 1])
                ELSE IF s[i] \in {"e", "E"} THEN Scan(s, i + 1, "esign", acc)
                ELSE InvalidOperation
           [] q = "esign" ->
                IF s[i] \in {"+", "-"}
                THEN Scan(s, i + 1, "exp", [acc EXCEPT !.eneg = (s[i] = "-")])
                ELSE Scan(s, i, "exp", acc)
           [] q = "exp" ->
                IF IsDigit(s[i])
                THEN Scan(s, i + 1, "exp",
                          [acc EXCEPT !.e = 10 * @ + DigitVal(s[i]), !.ed = @ + 1])
                ELSE InvalidOperation

\* Decimal(s): whitespace around the literal and underscores are dropped
DecimalFromStr(s) == Scan(Without(Strip(s, Whitespace), "_"), 1, "sign", ScanStart)

\* "%+d" % n
SignedStr(n) == IF n < 0 THEN <<"-">> \o IntStr(0 - n) ELSE <<"+">> \o IntStr(n)

\* str() of a special value: Infinity, NaN or sNaN with its payload
SpecialStr(d) ==
    (IF d.sign = 1 THEN <<"-">> ELSE <<>>) \o
    (IF d.s = <<"F">> THEN <<"I", "n", "f", "i", "n", "i", "t", "y">>
     ELSE (IF d.s = <<"N">> THEN <<"s">> ELSE <<>>) \o <<"N", "a", "N">>
          \o (IF d.coef = 0 THEN <<>> ELSE IntStr(d.coef)))

\* a variant of str() that never writes an exponent
DecimalStrPlain(d) ==
    IF IsSpecial(d) THEN SpecialStr(d) ELSE
    (IF d.sign = 1 THEN <<"-">> ELSE <<>>) \o
    (IF d.exp >= 0 THEN IntStr(d.coef)
     ELSE LET digits == IntStr(d.coef)
              n == Len(digits)
          IN IF n + d.exp <= 0 THEN <<"0", ".">> \o Zeros(0 - (n + d.exp)) \o digits
             ELSE SubSeq(digits, 1, n + d.exp) \o <<".">> \o SubSeq(digits, n + d.exp + 1, n))

\* Decimal.__str__: scientific notation when the exponent is positive or the
\* value has more than six leading zeros
DecimalStr(d) ==
    IF IsSpecial(d) THEN SpecialStr(d) ELSE
    LET digits == IntStr(d.coef)
        n == Len(digits)
        leftdigits == d.exp + n
        dotplace == IF d.exp <= 0 /\ leftdigits > -6 THEN leftdigits ELSE 1
        body == IF dotplace <= 0 THEN <<"0", ".">> \o Zeros(0 - dotplace) \o digits
                ELSE IF dotplace >= n THEN digits \o Zeros(dotplace - n)
                ELSE SubSeq(digits, 1, dotplace) \o <<".">> \o SubSeq(digits, dotplace + 1, n)
        e == IF leftdigits = dotplace THEN <<>>
             ELSE <<"E">> \o SignedStr(leftdigits - dotplace)
    IN (IF d.sign = 1 THEN <<"-">> ELSE <<>>) \o body \o e

\* float.__repr__ of the float whose shortest digits are coef * 10^exp
FloatStr(f) ==
    IF f.s = <<"n">> THEN <<"n", "a", "n">>
    ELSE IF f.s = <<"F">> THEN (IF f.sign = 1 THEN <<"-">> ELSE <<>>) \o <<"i", "n", "f">>
    ELSE
    LET digits == IntStr(f.coef)
        n == Len(digits)
        decpt == f.exp + n
        x == decpt - 1
        ax == IF x < 0 THEN 0 - x ELSE x
        body == IF decpt > -4 /\ decpt <= 16
                THEN IF decpt <= 0 THEN <<"0", ".">> \o Zeros(0 - decpt) \o digits
                     ELSE IF decpt >= n THEN digits \o Zeros(decpt - n) \o <<".", "0">>
                     ELSE SubSeq(digits, 1, decpt) \o <<".">> \o SubSeq(digits, decpt + 1, n)
                ELSE <<Head(digits)>>
                     \o (IF n > 1 THEN <<".">> \o Tail(digits) ELSE <<>>)
                     \o <<"e", IF x < 0 THEN "-" ELSE "+">>
                     \o (IF ax < 10 THEN <<"0">> ELSE <<>>) \o IntStr(ax)
    IN (IF f.sign = 1 THEN <<"-">> ELSE <<>>) \o body

\* str(v) for the values a mapping or a record can hold as a price
PyStr(v) ==
    CASE v.t = "Decimal" -> DecimalStr(v)
      [] v.t = "float" -> FloatStr(v)
      [] v.t = "int" -> (IF v.sign = 1 THEN <<"-">> ELSE <<>>) \o IntStr(v.coef)
      [] v.t = "bool" -> IF v.coef = 1 THEN <<"T", "r", "u", "e">>
                         ELSE <<"F", "a", "l", "s", "e">>
      [] v.t = "str" -> v.s
      [] v.t = "NoneType" -> <<"N", "o", "n", "e">>
      [] v.t = "list" -> <<"[", "]">>
      [] v.t = "Category" -> <<"C", "a", "t", "e", "g", "o", "r", "y", ".">> \o v.s

\* the same number with the trailing zeros of its coefficient moved to the
\* exponent
RECURSIVE Shortest(_)
Shortest(d) == IF d.coef # 0 /\ d.coef % 10 = 0
               THEN Shortest([d EXCEPT !.coef = @ \div 10, !.exp = @ + 1]) ELSE d

\* numeric equality of two decimals (Decimal.__eq__, the SQL = on a NUMERIC):
\* a NaN equals nothing, an infinity the infinity of its sign
DecEq(a, b) ==
    IF IsSpecial(a) \/ IsSpecial(b)
    THEN a.s = <<"F">> /\ b.s = <<"F">> /\ a.sign = b.sign
    ELSE IF a.coef = 0 \/ b.coef = 0 THEN a.coef = b.coef
    ELSE /\ a.sign = b.sign
         /\ Shortest(a).coef = Shortest(b).coef
         /\ Shortest(a).exp = Shortest(b).exp

(***************************************************************************)
(* Category: the enumeration and the other attributes of its class object. *)
(***************************************************************************)
UNKNOWN == <<"U", "N", "K", "N", "O", "W", "N">>
CLOTHS == <<"C", "L", "O", "T", "H", "S">>
FOOD == <<"F", "O", "O", "D">>
HOUSEWARES == <<"H", "O", "U", "S", "E", "W", "A", "R", "E", "S">>
AUTOMOTIVE == <<"A", "U", "T", "O", "M", "O", "T", "I", "V", "E">>
TOOLS == <<"T", "O", "O", "L", "S">>

CategoryNames == {UNKNOWN, CLOTHS, FOOD, HOUSEWARES, AUTOMOTIVE, TOOLS}

\* The names that getattr finds on the class object although they are no
\* members: what the class, Enum, object and the metaclass EnumType define
\* (CPython 3.11).
DunderDoc == <<"_", "_", "d", "o", "c", "_", "_">>
DunderName == <<"_", "_", "n", "a", "m", "e", "_", "_">>
DunderMembers == <<"_", "_", "m", "e", "m", "b", "e", "r", "s", "_", "_">>
DunderModule == <<"_", "_", "m", "o", "d", "u", "l", "e", "_", "_">>
UseArgs == <<"_", "u", "s", "e", "_", "a", "r", "g", "s", "_">>
Mro == <<"m", "r", "o">>
ClassAttributes ==
    {<<"_", "_", "a", "n", "n", "o", "t", "a", "t", "i", "o", "n", "s", "_", "_">>,
     <<"_", "_", "b", "a", "s", "e", "_", "_">>,
     <<"_", "_", "b", "a", "s", "e", "s", "_", "_">>,
     <<"_", "_", "b", "a", "s", "i", "c", "s", "i", "z", "e", "_", "_">>,
     <<"_", "_", "b", "o", "o", "l", "_", "_">>,
     <<"_", "_", "c", "a", "l", "l", "_", "_">>,
     <<"_", "_", "c", "l", "a", "s", "s", "_", "_">>,
     <<"_", "_", "c", "o", "n", "t", "a", "i", "n", "s", "_", "_">>,
     <<"_", "_", "c", "o", "p", "y", "_", "_">>,
     <<"_", "_", "d", "e", "e", "p", "c", "o", "p", "y", "_", "_">>,
     <<"_", "_", "d", "e", "l", "a", "t", "t", "r", "_", "_">>,
     <<"_", "_", "d", "i", "c", "t", "_", "_">>,
     <<"_", "_", "d", "i", "c", "t", "o", "f", "f", "s", "e", "t", "_", "_">>,
     <<"_", "_", "d", "i", "r", "_", "_">>,
     DunderDoc,
     <<"_", "_", "e", "q", "_", "_">>,
     <<"_", "_", "f", "l", "a", "g", "s", "_", "_">>,
     <<"_", "_", "f", "o", "r", "m", "a", "t", "_", "_">>,
     <<"_", "_", "g", "e", "_", "_">>,
     <<"_", "_", "g", "e", "t", "a", "t", "t", "r", "_", "_">>,
     <<"_", "_", "g", "e", "t", "a", "t", "t", "r", "i", "b", "u", "t", "e", "_", "_">>,
     <<"_", "_", "g", "e", "t", "i", "t", "e", "m", "_", "_">>,
     <<"_", "_", "g", "e", "t", "s", "t", "a", "t", "e", "_", "_">>,
     <<"_", "_", "g", "t", "_", "_">>,
     <<"_", "_", "h", "a", "s", "h", "_", "_">>,
     <<"_", "_", "i", "n", "i", "t", "_", "_">>,
     <<"_", "_", "i", "n", "i", "t", "_", "s", "u", "b", "c", "l", "a", "s", "s", "_", "_">>,
     <<"_", "_", "i", "n", "s", "t", "a", "n", "c", "e", "c", "h", "e", "c", "k", "_", "_">>,
     <<"_", "_", "i", "t", "e", "m", "s", "i", "z", "e", "_", "_">>,
     <<"_", "_", "i", "t", "e", "r", "_", "_">>,
     <<"_", "_", "l", "e", "_", "_">>,
     <<"_", "_", "l", "e", "n", "_", "_">>,
     <<"_", "_", "l", "t", "_", "_">>,
     DunderMembers,
     DunderModule,
     <<"_", "_", "m", "r", "o", "_", "_">>,
     DunderName,
     <<"_", "_", "n", "e", "_", "_">>,
     <<"_", "_", "n", "e", "w", "_", "_">>,
     <<"_", "_", "o", "r", "_", "_">>,
     <<"_", "_", "p", "r", "e", "p", "a", "r", "e", "_", "_">>,
     <<"_", "_", "q", "u", "a", "l", "n", "a", "m", "e", "_", "_">>,
     <<"_", "_", "r", "e", "d", "u", "c", "e", "_", "_">>,
     <<"_", "_", "r", "e", "d", "u", "c", "e", "_", "e", "x", "_", "_">>,
     <<"_", "_", "r", "e", "p", "r", "_", "_">>,
     <<"_", "_", "r", "e", "v", "e", "r", "s", "e", "d", "_", "_">>,
     <<"_", "_", "r", "o", "r", "_", "_">>,
     <<"_", "_", "s", "e", "t", "a", "t", "t", "r", "_", "_">>,
     <<"_", "_", "s", "i", "z", "e", "o", "f", "_", "_">>,
     <<"_", "_", "s", "t", "r", "_", "_">>,
     <<"_", "_", "s", "u", "b", "c", "l", "a", "s", "s", "c", "h", "e", "c", "k", "_", "_">>,
     <<"_", "_", "s", "u", "b", "c", "l", "a", "s", "s", "e", "s", "_", "_">>,
     <<"_", "_", "s", "u", "b", "c", "l", "a", "s", "s", "h", "o", "o", "k", "_", "_">>,
     <<"_", "_", "t", "e", "x", "t", "_", "s", "i", "g", "n", "a", "t", "u", "r", "e", "_", "_">>,
     <<"_", "_", "w", "e", "a", "k", "r", "e", "f", "_", "_">>,
     <<"_", "_", "w", "e", "a", "k", "r", "e", "f", "o", "f", "f", "s", "e", "t", "_", "_">>,
     <<"_", "c", "h", "e", "c", "k", "_", "f", "o", "r", "_", "e", "x", "i", "s", "t", "i", "n", "g", "_", "m", "e", "m", "b", "e", "r", "s", "_">>,
     <<"_", "c", "o", "n", "v", "e", "r", "t", "_">>,
     <<"_", "c", "r", "e", "a", "t", "e", "_">>,
     <<"_", "f", "i", "n", "d", "_", "d", "a", "t", "a", "_", "r", "e", "p", "r", "_">>,
     <<"_", "f", "i", "n", "d", "_", "d", "a", "t", "a", "_", "t", "y", "p", "e", "_">>,
     <<"_", "f", "i", "n", "d", "_", "n", "e", "w", "_">>,
     <<"_", "g", "e", "n", "e", "r", "a", "t", "e", "_", "n", "e", "x", "t", "_", "v", "a", "l", "u", "e", "_">>,
     <<"_", "g", "e", "t", "_", "m", "i", "x", "i", "n", "s", "_">>,
     <<"_", "m", "e", "m", "b", "e", "r", "_", "m", "a", "p", "_">>,
     <<"_", "m", "e", "m", "b", "e", "r", "_", "n", "a", "m", "e", "s", "_">>,
     <<"_", "m", "e", "m", "b", "e", "r", "_", "t", "y", "p", "e", "_">>,
     <<"_", "m", "i", "s", "s", "i", "n", "g", "_">>,
     <<"_", "n", "e", "w", "_", "m", "e", "m", "b", "e", "r", "_">>,
     <<"_", "u", "n", "h", "a", "s", "h", "a", "b", "l", "e", "_", "v", "a", "l", "u", "e", "s", "_">>,
     UseArgs,
     <<"_", "v", "a", "l", "u", "e", "2", "m", "e", "m", "b", "e", "r", "_", "m", "a", "p", "_">>,
     <<"_", "v", "a", "l", "u", "e", "_", "r", "e", "p", "r", "_">>,
     Mro}
\* those of them whose value is falsy (an empty mapping or list, 0, None, False)
FalsyAttributes ==
    {<<"_", "_", "a", "n", "n", "o", "t", "a", "t", "i", "o", "n", "s", "_", "_">>,
     <<"_", "_", "i", "t", "e", "m", "s", "i", "z", "e", "_", "_">>,
     <<"_", "_", "t", "e", "x", "t", "_", "s", "i", "g", "n", "a", "t", "u", "r", "e", "_", "_">>,
     <<"_", "u", "n", "h", "a", "s", "h", "a", "b", "l", "e", "_", "v", "a", "l", "u", "e", "s", "_">>,
     UseArgs,
     <<"_", "v", "a", "l", "u", "e", "_", "r", "e", "p", "r", "_">>}

\* truth value: None, zero, the empty string and the empty list are falsy, a
\* NaN and an infinity are not
Truthy(v) ==
    CASE v.t = "NoneType" -> FALSE
      [] v.t \in {"int", "bool"} -> v.coef # 0
      [] v.t \in {"float", "Decimal"} -> IsSpecial(v) \/ v.coef # 0
      [] v.t \in {"str", "list"} -> v.s # <<>>
      [] v.t = "attribute" -> v.s \notin FalsyAttributes
      [] OTHER -> TRUE

(***************************************************************************)
(* Exceptions.                                                             *)
(***************************************************************************)
Exc(type, msg, arg) == [type |-> type, msg |-> msg, arg |-> arg]
NoExc == Exc("", "", <<>>)
KeyError(key) == Exc("KeyError", "", <<key>>)
\* type(v).__qualname__ with its module, as messages print it
TypeName(v) ==
    CASE v.t = "Decimal" -> "decimal.Decimal"
      [] v.t \in {"NoneType", "list", "str", "bool", "int", "float", "Category"} -> v.t
\* str(type(v))
TypeStr(v) == IF v.t = "Category" THEN <<"<enum '", TypeName(v), "'>">>
              ELSE <<"<class '", TypeName(v), "'>">>
DataValidationError(msg, arg) == Exc("DataValidationError", msg, arg)

\* getattr(Category, name)
GetAttrCategory(name) ==
    IF name.t # "str"
    THEN [exc |-> Exc("TypeError", "",
                      <<"attribute name must be string, not '", TypeName(name), "'">>),
          v |-> NoneV]
    ELSE IF name.s \in CategoryNames THEN [exc |-> NoExc, v |-> EnumV(name.s)]
    ELSE IF name.s \in ClassAttributes THEN [exc |-> NoExc, v |-> AttrV(name.s)]
    ELSE [exc |-> Exc("AttributeError", "", name.s), v |-> NoneV]

(***************************************************************************)
(* Product: the record, serialize and deserialize.                         *)
(***************************************************************************)
Product(id, name, description, price, available, category) ==
    [id |-> id, name |-> name, description |-> description, price |-> price,
     available |-> available, category |-> category]

\* Product(): no attribute set yet
NewProduct == Product(NoneV, NoneV, NoneV, NoneV, NoneV, NoneV)

FieldOrder == <<"name", "description", "price", "available", "category">>

EmptyMapping == [k \in {} |-> NoneV]

\* self.category.name: only a member of the enumeration has a name
NameOf(category) ==
    IF category.t = "Category" THEN [exc |-> NoExc, v |-> category.s]
    ELSE [exc |-> Exc("AttributeError", "", <<"name">>), v |-> <<>>]

serialize(self) ==
    LET cat_name == IF Truthy(self.category) THEN NameOf(self.category)
                    ELSE [exc |-> NoExc, v |-> UNKNOWN]
    IN IF cat_name.exc # NoExc THEN [exc |-> cat_name.exc, v |-> EmptyMapping]
       ELSE [exc |-> NoExc,
             v |-> [k \in {"id", "name", "description", "price", "available", "category"} |->
                      CASE k = "id" -> self.id
                        [] k = "name" -> self.name
                        [] k = "description" -> self.description
                        [] k = "price" -> StrV(PyStr(self.price))
                        [] k = "available" -> self.available
                        [] k = "category" -> StrV(cat_name.v)]]

\* The statements of the try block. Each takes the state [rec, exc] reached so
\* far and is skipped once an exception is in flight.
SetName(st, data) ==
    IF st.exc # NoExc THEN st
    ELSE IF "name" \notin DOMAIN data THEN [st EXCEPT !.exc = KeyError("name")]
    ELSE [st EXCEPT !.rec.name = data["name"]]

SetDescription(st, data) ==
    IF st.exc # NoExc THEN st
    ELSE IF "description" \notin DOMAIN data THEN [st EXCEPT !.exc = KeyError("description")]
    ELSE [st EXCEPT !.rec.description = data["description"]]

SetPrice(st, data) ==
    IF st.exc # NoExc THEN st
    ELSE IF "price" \notin DOMAIN data THEN [st EXCEPT !.exc = KeyError("price")]
    ELSE LET raw_price == data["price"]
             d == IF IsInstance(raw_price, {"int", "float", "Decimal"})
                  THEN DecimalFromStr(PyStr(raw_price))
                  ELSE DecimalFromStr(Strip(raw_price.s, Whitespace))
         IN IF ~IsInstance(raw_price, {"int", "float", "Decimal", "str"})
            THEN [st EXCEPT !.exc = DataValidationError("Invalid type for price: ",
                                                         TypeStr(raw_price))]
            ELSE IF ~d.ok THEN [st EXCEPT !.exc = Exc("InvalidOperation", "", <<>>)]
            ELSE [st EXCEPT !.rec.price = d.v]

SetAvailable(st, data) ==
    IF st.exc # NoExc THEN st
    ELSE IF "available" \notin DOMAIN data THEN [st EXCEPT !.exc = KeyError("available")]
    ELSE IF IsInstance(data["available"], {"bool"})
         THEN [st EXCEPT !.rec.available = data["available"]]
         ELSE [st EXCEPT !.exc = DataValidationError("Invalid type for boolean [available]: ",
                                                      TypeStr(data["available"]))]

SetCategory(st, data) ==
    IF st.exc # NoExc THEN st
    ELSE IF "category" \notin DOMAIN data THEN [st EXCEPT !.exc = KeyError("category")]
    ELSE LET r == GetAttrCategory(data["category"])
         IN IF r.exc # NoExc THEN [st EXCEPT !.exc = r.exc]
            ELSE [st EXCEPT !.rec.category = r.v]

\* The except clauses: what the caller sees for the exception in flight.
Handle(exc) ==
    CASE exc.type = "InvalidOperation" -> DataValidationError("Invalid price value", <<>>)
      [] exc.type = "AttributeError" -> DataValidationError("Invalid attribute: ", exc.arg)
      [] exc.type = "KeyError" -> DataValidationError("Invalid product: missing ", exc.arg)
      [] exc.type = "TypeError" ->
            DataValidationError("Invalid product: body of request contained bad or no data ",
                                exc.arg)
      [] OTHER -> exc

\* a variant of the try block that validates available before price
AvailableBeforePrice == <<"name", "description", "available", "price", "category">>

\* the statements of the try block, in program order
TryStatements == <<"name", "description", "price", "available", "category">>

Statement(field, st, data) ==
    CASE field = "name" -> SetName(st, data)
      [] field = "description" -> SetDescription(st, data)
      [] field = "price" -> SetPrice(st, data)
      [] field = "available" -> SetAvailable(st, data)
      [] field = "category" -> SetCategory(st, data)

\* run the statements from the i-th on; the first exception ends the block
RECURSIVE RunFrom(_, _, _)
RunFrom(i, st, data) ==
    IF i > Len(TryStatements) \/ st.exc # NoExc THEN st
    ELSE RunFrom(i + 1, Statement(TryStatements[i], st, data), data)

TryBody(self, data) == RunFrom(1, [rec |-> self, exc |-> NoExc], data)

deserialize(self, data) ==
    LET r == TryBody(self, data)
    IN [rec |-> r.rec, exc |-> Handle(r.exc)]

(***************************************************************************)
(* State.                                                                  *)
(***************************************************************************)
VARIABLES
    objs,        \* the Product objects in memory: instance state and attributes
    table,       \* the committed rows of the product table, by id
    seq,         \* rows inserted so far (the last value of an id sequence)
    backend,     \* how the storage backend picks the next primary key
    last,        \* the outcome of the last store operation
    DB_INITED,   \* app.config["DB_INITED"]
    registered,  \* how often db.init_app(app) has run
    ctx,         \* application contexts pushed
    schema,      \* whether db.create_all() has created the table
    data,        \* the mapping handed to deserialize
    prod,        \* the Product that serialize reads and deserialize fills
    derr,        \* the exception deserialize raised, NoExc if none
    orig,        \* the Product that was serialized, for the round trip
    dpc          \* position of the conversion: "ser", "deser", "done", "idle",
                 \* "raised" when serialize raised

storeVars == <<objs, table, seq, backend, last>>
setupVars == <<DB_INITED, registered, ctx, schema>>
convVars == <<data, prod, derr, orig, dpc>>
vars == <<objs, table, seq, backend, last, DB_INITED, registered, ctx, schema,
          data, prod, derr, orig, dpc>>

(***************************************************************************)
(* The conversions: inputs, and one action per call.                       *)
(***************************************************************************)
Hammer == <<"h", "a", "m", "m", "e", "r">>
Tee == <<"t", "e", "e">>
Tool == <<"t", "o", "o", "l">>
Yes == <<"y", "e", "s">>
LowerTools == <<"t", "o", "o", "l", "s">>
PaddedTools == <<" ", "T", "O", "O", "L", "S">>
NotARealCategory == <<"N", "O", "T", "_", "A", "_", "R", "E", "A", "L", "_", "C", "A", "T", "E", "G", "O", "R", "Y">>
TwelveFifty == <<"1", "2", ".", "5", "0">>
TwelveFiftyPadded == <<" ", "1", "2", ".", "5", "0", "\t">>
TwelveFiftyQuoted == <<"\"", "1", "2", ".", "5", "0", "\"">>
TwelveDotFifty == <<"t", "w", "e", "l", "v", "e", ".", "f", "i", "f", "t", "y">>
OneE3 == <<"1", "E", "+", "3">>
TwelveFiftyFormFeed == <<"\f", "1", "2", ".", "5", "0">>
NaNWord == <<"N", "a", "N">>
MinusInfinity == <<"-", "I", "n", "f", "i", "n", "i", "t", "y">>
FloatNaN == SpecialV("float", "n", 0, 0)
\* 12.50 between a vertical tab and a no-break space, in Arabic-Indic digits,
\* and 12 in fullwidth digits with an underscore
TwelveFiftyVtNbsp == <<"", "1", "2", ".", "5", "0", " ">>
TwelveFiftyArabicIndic == <<"\\u0661", "\\u0662", ".", "\\u0665", "\\u0660">>
TwelveFullwidth == <<"\\uff11", "_", "\\uff12">>
TwelveFiftyFullwidthPoint == <<"1", "2", "\\uff0e", "5", "0">>

AbsentV == Val("absent", <<>>, 0, 0, 0)
NameInputs == {StrV(Hammer), StrV(<<>>), IntV(0, 7)}
DescriptionInputs == {StrV(Tool), StrV(<<>>), NoneV}
PriceInputs == {StrV(TwelveFifty), StrV(TwelveFiftyPadded), StrV(TwelveFiftyQuoted),
                StrV(TwelveDotFifty), StrV(OneE3), StrV(<<>>),
                StrV(TwelveFiftyFormFeed), StrV(NaNWord), StrV(MinusInfinity), FloatNaN,
                StrV(TwelveFiftyVtNbsp), StrV(TwelveFiftyArabicIndic), StrV(TwelveFullwidth),
                StrV(TwelveFiftyFullwidthPoint),
                IntV(0, 12), IntV(1, 3), FloatV(0, 125, -1), FloatV(0, 1, -5),
                DecV(0, 1250, -2), TRUEV, NoneV, ListV}
AvailableInputs == {TRUEV, FALSEV, StrV(Yes), IntV(0, 1), DecV(0, 1, 0)}
CategoryInputs == {StrV(c) : c \in CategoryNames}
                  \cup {StrV(LowerTools), StrV(PaddedTools), StrV(NotARealCategory),
                        StrV(DunderDoc), StrV(Mro), StrV(DunderModule), StrV(UseArgs),
                        IntV(0, 5), EnumV(TOOLS)}

\* the mapping with the given values, a key left out where the value is Absent
Mapping(n, d, p, a, c) ==
    LET full == [k \in {"name", "description", "price", "available", "category"} |->
                    CASE k = "name" -> n [] k = "description" -> d [] k = "price" -> p
                      [] k = "available" -> a [] k = "category" -> c]
        keys == {k \in DOMAIN full : full[k] # AbsentV}
    IN [k \in keys |-> full[k]]

Mappings == {Mapping(n, d, p, a, c) :
                n \in NameInputs \cup {AbsentV}, d \in DescriptionInputs \cup {AbsentV},
                p \in PriceInputs \cup {AbsentV}, a \in AvailableInputs \cup {AbsentV},
                c \in CategoryInputs \cup {AbsentV}}

\* the records serialize is applied to
RecordPrices == {DecV(s, c, e) : s \in {0, 1}, c \in {0, 5, 1250, 1999},
                                 e \in {-8, -7, -2, 0, 1, 3}}
                \cup {SpecialV("Decimal", "n", 0, 0), SpecialV("Decimal", "F", 1, 0), NoneV}
\* the categories a record can hold: a member, None, or what deserialize
\* stored for the name of another attribute of the class
RecordCategories == {EnumV(x) : x \in CategoryNames}
                    \cup {NoneV, AttrV(DunderDoc), AttrV(UseArgs)}
Records == {Product(i, StrV(n), StrV(d), p, a, c) :
               i \in {NoneV, IntV(0, 3)}, n \in {Hammer, Tee}, d \in {Tool},
               p \in RecordPrices, a \in {TRUEV, FALSEV},
               c \in RecordCategories}

ConvIdle ==
    /\ data = EmptyMapping /\ prod = NewProduct /\ derr = NoExc
    /\ orig = NewProduct /\ dpc = "idle"

\* p.serialize(), then the mapping is handed to a fresh Product; an exception
\* of serialize ends the conversion
Serialize ==
    /\ dpc = "ser"
    /\ LET r == serialize(prod)
       IN IF r.exc # NoExc
          THEN /\ derr' = r.exc /\ dpc' = "raised"
               /\ UNCHANGED <<data, prod>>
          ELSE /\ data' = r.v /\ prod' = NewProduct /\ dpc' = "deser"
               /\ UNCHANGED derr
    /\ orig' = prod
    /\ UNCHANGED <<storeVars, setupVars>>

\* Product().deserialize(data)
Deserialize ==
    /\ dpc = "deser"
    /\ LET r == deserialize(prod, data)
       IN prod' = r.rec /\ derr' = r.exc
    /\ dpc' = "done"
    /\ UNCHANGED <<data, orig, storeVars, setupVars>>

(***************************************************************************)
(* The store: the session's objects and the product table.                 *)
(***************************************************************************)
Spare == <<"s", "p", "a", "r", "e">>
Objects == 1..NObj

\* the attribute values the caller gives a record (the records of the tests)
Profiles ==
    {Product(NoneV, StrV(Tee), StrV(Spare), DecV(0, 2100, -2), FALSEV, EnumV(CLOTHS)),
     Product(NoneV, StrV(Hammer), StrV(Tool), DecV(0, 1250, -2), TRUEV, EnumV(TOOLS))}
\* the ids a record may carry before it is created (the factory numbers them)
CarriedIds == {NoneV, IntV(0, 0), IntV(0, 1)}
Backends == {"sequence", "rowid"}

Result(op, obj, exc, rows, v) ==
    [op |-> op, obj |-> obj, exc |-> exc, rows |-> rows, v |-> v]
NoResult == Result("", 0, NoExc, {}, NoneV)

Persistent(os) == {o \in DOMAIN os : os[o].st = "persistent"}
IdOf(os, o) == os[o].rec.id.coef
SetMax(S) == CHOOSE m \in S : \A x \in S : x <= m

\* flush: every persistent object's attributes are written to its row
Flush(t, os) ==
    [i \in DOMAIN t |->
        IF \E o \in Persistent(os) : IdOf(os, o) = i
        THEN os[CHOOSE o \in Persistent(os) : IdOf(os, o) = i].rec
        ELSE t[i]]

\* id = db.Column(db.Integer, primary_key=True): the key the backend gives an
\* inserted row. A sequence never repeats; a rowid is one more than the largest.
NextId ==
    IF backend = "sequence" THEN seq + 1
    ELSE IF DOMAIN table = {} THEN 1 ELSE SetMax(DOMAIN table) + 1

Insert(t, id, row) == [i \in DOMAIN t \cup {id} |-> IF i = id THEN row ELSE t[i]]
\* a variant of the delete that leaves the row in the table
RemoveNothing(t, id) == t

Remove(t, id) == [i \in DOMAIN t \ {id} |-> t[i]]

\* init_db(app) / Product.init_db(app)
InitDb ==
    /\ ctx < MaxInit
    /\ IF ~DB_INITED
       THEN registered' = registered + 1 /\ DB_INITED' = TRUE
       ELSE UNCHANGED <<registered, DB_INITED>>
    /\ ctx' = ctx + 1
    /\ schema' = TRUE
    /\ UNCHANGED <<storeVars, convVars>>

\* attribute assignment on a record in memory
Assign(o) ==
    /\ objs[o].st # "deleted"
    /\ \E p \in Profiles :
          /\ objs[o].rec # [p EXCEPT !.id = objs[o].rec.id]
          /\ objs' = [objs EXCEPT ![o].rec = [p EXCEPT !.id = objs[o].rec.id]]
    /\ last' = Result("assign", o, NoExc, {}, NoneV)
    /\ UNCHANGED <<table, seq, backend, setupVars, convVars>>

\* the caller sets the id of a record that is not stored
AssignId(o) ==
    /\ objs[o].st = "transient"
    /\ \E i \in CarriedIds :
          /\ objs[o].rec.id # i
          /\ objs' = [objs EXCEPT ![o].rec.id = i]
    /\ last' = Result("assign", o, NoExc, {}, NoneV)
    /\ UNCHANGED <<table, seq, backend, setupVars, convVars>>

\* p.create(): self.id = None; session.add(self); session.commit()
Create(o) ==
    /\ schema
    /\ objs[o].st = "transient"
    /\ LET id == NextId
           row == [objs[o].rec EXCEPT !.id = IntV(0, id)]
       IN /\ objs' = [objs EXCEPT ![o] = [st |-> "persistent", rec |-> row]]
          /\ table' = Insert(Flush(table, objs), id, row)
    /\ seq' = seq + 1
    /\ last' = Result("create", o, NoExc, {}, NoneV)
    /\ UNCHANGED <<backend, setupVars, convVars>>

\* a variant of update that commits before it looks at the id
UpdateCommitFirst(o) ==
    /\ schema
    /\ table' = Flush(table, objs)
    /\ last' = IF ~Truthy(objs[o].rec.id)
               THEN Result("update", o,
                           DataValidationError("Update called with empty ID field", <<>>),
                           {}, NoneV)
               ELSE Result("update", o, NoExc, {}, NoneV)
    /\ UNCHANGED <<objs, seq, backend, setupVars, convVars>>

\* p.update(): raises when the id is empty, else session.commit()
Update(o) ==
    /\ schema
    /\ IF ~Truthy(objs[o].rec.id)
       THEN /\ last' = Result("update", o,
                              DataValidationError("Update called with empty ID field", <<>>),
                              {}, NoneV)
            /\ UNCHANGED table
       ELSE /\ table' = Flush(table, objs)
            /\ last' = Result("update", o, NoExc, {}, NoneV)
    /\ UNCHANGED <<objs, seq, backend, setupVars, convVars>>

\* p.delete(): session.delete(self); session.commit()
Delete(o) ==
    /\ schema
    /\ objs[o].st = "persistent"
    /\ objs' = [objs EXCEPT ![o].st = "deleted"]
    /\ table' = Remove(Flush(table, objs), IdOf(objs, o))
    /\ last' = Result("delete", o, NoExc, {}, NoneV)
    /\ UNCHANGED <<seq, backend, setupVars, convVars>>

(***************************************************************************)
(* The finders. A query first flushes the session (autoflush), so it sees  *)
(* the rows as the objects in memory have them.                            *)
(***************************************************************************)
View == Flush(table, objs)
Rows(ids) == {View[i] : i \in ids}

\* Product.all()
All ==
    /\ schema
    /\ last' = Result("all", 0, NoExc, Rows(DOMAIN View), NoneV)
    /\ UNCHANGED <<objs, table, seq, backend, setupVars, convVars>>

\* Product.find(product_id): the row with that primary key, or None
FindIds == 0..(NObj + 1)
Find ==
    /\ schema
    /\ \E i \in FindIds :
          last' = Result("find", 0, NoExc, Rows({i} \cap DOMAIN View), IntV(0, i))
    /\ UNCHANGED <<objs, table, seq, backend, setupVars, convVars>>

\* Product.find_by_name(name)
FindByName ==
    /\ schema
    /\ \E n \in {Tee, Hammer} :
          last' = Result("find_by_name", 0, NoExc,
                         Rows({i \in DOMAIN View : View[i].name = StrV(n)}), StrV(n))
    /\ UNCHANGED <<objs, table, seq, backend, setupVars, convVars>>

\* Product.find_by_availability(available)
FindByAvailability ==
    /\ schema
    /\ \E a \in {TRUEV, FALSEV} :
          last' = Result("find_by_availability", 0, NoExc,
                         Rows({i \in DOMAIN View : View[i].available = a}), a)
    /\ UNCHANGED <<objs, table, seq, backend, setupVars, convVars>>

\* Product.find_by_category(category)
FindByCategory ==
    /\ schema
    /\ \E c \in {EnumV(UNKNOWN), EnumV(CLOTHS), EnumV(TOOLS)} :
          last' = Result("find_by_category", 0, NoExc,
                         Rows({i \in DOMAIN View : View[i].category = c}), c)
    /\ UNCHANGED <<objs, table, seq, backend, setupVars, convVars>>

\* the normalisation of find_by_price: a string is stripped of spaces and
\* double quotes and parsed, an int or float goes through str()
PriceValue(price) ==
    IF IsInstance(price, {"str"}) THEN DecimalFromStr(Strip(price.s, {" ", "\""}))
    ELSE IF IsInstance(price, {"int", "float"}) THEN DecimalFromStr(PyStr(price))
    ELSE [ok |-> TRUE, v |-> price]

\* the decimals that are asked for, and the shapes a caller may give one
QueryPrices == {DecV(0, 1250, -2), DecV(0, 2100, -2)}
Pads == {<<>>, <<" ">>, <<"\"">>, <<" ", "\"">>, <<"\t">>, <<"\t", "\"">>}
Mirror(pad) == [i \in 1..Len(pad) |-> pad[Len(pad) + 1 - i]]

\* the float literal and, for a whole number, the int literal of a decimal
FloatOf(d) == LET f == Shortest(d) IN FloatV(f.sign, f.coef, f.exp)
IsWhole(d) == Shortest(d).exp >= 0
IntOf(d) == LET f == Shortest(d) IN IntV(f.sign, f.coef * Pow10(f.exp))

ShapesOf(d) ==
    {d, FloatOf(d)}
    \cup (IF IsWhole(d) THEN {IntOf(d)} ELSE {})
    \cup {StrV(l \o DecimalStr(d) \o Mirror(l)) : l \in Pads}

\* what find_by_price is called with: every shape of the decimals asked for,
\* and the special values
QueryShapes == UNION {ShapesOf(d) : d \in QueryPrices}
               \cup {StrV(NaNWord), StrV(MinusInfinity), FloatNaN,
                     StrV(TwelveFiftyVtNbsp), StrV(TwelveFiftyArabicIndic)}

\* Product.find_by_price(price)
FindByPrice ==
    /\ schema
    /\ \E price \in QueryShapes :
          LET price_value == PriceValue(price)
          IN last' = IF ~price_value.ok
                     THEN Result("find_by_price", 0, Exc("InvalidOperation", "", <<>>),
                                 {}, price)
                     ELSE Result("find_by_price", 0, NoExc,
                                 Rows({i \in DOMAIN View :
                                          DecEq(View[i].price, price_value.v)}), price)
    /\ UNCHANGED <<objs, table, seq, backend, setupVars, convVars>>

(***************************************************************************)
(* Specifications.                                                         *)
(***************************************************************************)
EmptyTable == [i \in {} |-> NewProduct]

StoreInit ==
    /\ objs \in [Objects -> {[st |-> "transient", rec |-> p] : p \in Profiles}]
    /\ table = EmptyTable
    /\ seq = 0
    /\ backend \in Backends
    /\ last = NoResult

\* the application before init_db: records are constructed, nothing is stored
Init ==
    /\ StoreInit
    /\ DB_INITED = FALSE /\ registered = 0 /\ ctx = 0 /\ schema = FALSE
    /\ ConvIdle

Next ==
    \/ InitDb
    \/ \E o \in Objects : Create(o)
    \/ \E o \in Objects : Update(o)
    \/ \E o \in Objects : Delete(o)
    \/ \E o \in Objects : Assign(o)
    \/ \E o \in Objects : AssignId(o)

Spec == Init /\ [][Next]_vars

\* the application after one init_db, queried between creates and deletes
InitFind ==
    /\ StoreInit
    /\ DB_INITED = TRUE /\ registered = 1 /\ ctx = 1 /\ schema = TRUE
    /\ ConvIdle

NextFind ==
    \/ \E o \in Objects : Create(o)
    \/ \E o \in Objects : Delete(o)
    \/ All
    \/ Find
    \/ FindByName
    \/ FindByPrice
    \/ FindByAvailability
    \/ FindByCategory

SpecFind == InitFind /\ [][NextFind]_vars

\* a conversion: either a record is serialized and read back, or a mapping
\* from outside is deserialized
InitConv ==
    /\ objs = [o \in Objects |-> [st |-> "transient", rec |-> NewProduct]]
    /\ table = EmptyTable /\ seq = 0 /\ backend = "sequence" /\ last = NoResult
    /\ DB_INITED = FALSE /\ registered = 0 /\ ctx = 0 /\ schema = FALSE
    /\ derr = NoExc /\ orig = NewProduct
    /\ \/ dpc = "ser" /\ prod \in Records /\ data = EmptyMapping
       \/ dpc = "deser" /\ prod = NewProduct /\ data \in Mappings

NextConv == Serialize \/ Deserialize

SpecConv == InitConv /\ [][NextConv]_vars

(***************************************************************************)
(* Properties of the store (Spec, SpecFind).                               *)
(***************************************************************************)
Deleted == {o \in Objects : objs[o].st = "deleted"}
Stored == {objs[o].rec : o \in Persistent(objs)}

\* C1: after any creates and deletes, all() returns exactly the records that
\* were created and not since deleted, as many as creates minus deletes, and
\* find(id) returns the stored record with that id, and None (no exception) for
\* any id no stored record has, the id of a deleted record included.
C1_AllAndFind ==
    /\ last.op = "all" =>
          /\ last.exc = NoExc
          /\ last.rows = Stored
          /\ Cardinality(last.rows) = seq - Cardinality(Deleted)
    /\ last.op = "find" =>
          /\ last.exc = NoExc
          /\ last.rows = {r \in Stored : r.id = last.v}
          /\ Cardinality(last.rows) <= 1
          /\ (\A r \in Stored : r.id # last.v) => last.rows = {}

\* find is asked for the id of a deleted record while another record is stored
C1_Witness ==
    /\ last.op = "find"
    /\ \E o \in Deleted : objs[o].rec.id = last.v
    /\ last.rows = {}
    /\ Stored # {}

EmptyId == DataValidationError("Update called with empty ID field", <<>>)

C2_Outcome ==
    last.op = "update" =>
       /\ ~Truthy(objs[last.obj].rec.id) => last.exc = EmptyId
       /\ objs[last.obj].st = "persistent" =>
             /\ last.exc = NoExc
             /\ IdOf(objs, last.obj) \in DOMAIN table
             /\ table[IdOf(objs, last.obj)] = objs[last.obj].rec

\* C2: update on a record whose id is None or 0 raises DataValidationError
\* "Update called with empty ID field" and commits nothing (the table is as it
\* was, pending changes of other records included); update on a persisted
\* record raises nothing and leaves the row with its id holding all five
\* current attribute values of the record.
C2_Update ==
    /\ []C2_Outcome
    /\ [][(last'.op = "update" /\ last'.exc # NoExc) => table' = table]_vars

\* update was called on a persisted record and its row now holds its attributes
C2_Witness ==
    /\ last.op = "update"
    /\ objs[last.obj].st = "persistent"
    /\ last.exc = NoExc
    /\ table[IdOf(objs, last.obj)] = objs[last.obj].rec
    /\ \E o \in Objects : ~Truthy(objs[o].rec.id)

\* C7: the id a create assigns differs from the id of every record stored and
\* of every record created earlier, deleted ones included: no two records that
\* were ever created have the same id.
C7_IdsNeverReused ==
    \A o1, o2 \in Objects :
       (o1 # o2 /\ objs[o1].st # "transient" /\ objs[o2].st # "transient")
          => objs[o1].rec.id # objs[o2].rec.id

\* C6: find_by_price returns the stored records whose price equals v, without
\* raising, whichever accepted shape v is given in: the decimal, the numeric
\* literal, or the string of its literal with or without whitespace and quote
\* characters around it.
C6_SameResultForEveryShape ==
    last.op = "find_by_price" =>
       \A d \in QueryPrices :
          last.v \in ShapesOf(d) =>
             /\ last.exc = NoExc
             /\ last.rows = Rows({i \in DOMAIN View : DecEq(View[i].price, d)})

C10_State ==
    /\ ctx = 0 => (~DB_INITED /\ registered = 0)
    /\ ctx >= 1 => (DB_INITED /\ registered = 1 /\ schema)

\* C10: init_db is idempotent: db.init_app runs exactly once, on the first
\* call, guarded by DB_INITED, and once the flag is set no later call changes
\* the shared setup state (the flag, the registration, the application
\* contexts pushed, the schema): it is after n >= 1 calls as after one.
C10_InitOnce ==
    /\ []C10_State
    /\ [][DB_INITED => setupVars' = setupVars]_vars

(***************************************************************************)
(* Properties of the conversions (SpecConv).                               *)
(***************************************************************************)
IsNumber(v) == v.t \in {"int", "float", "Decimal"}
IsLiteral(v) == v.t = "str" /\ DecimalFromStr(Strip(v.s, Whitespace)).ok
NonEmptyString(v) == v.t = "str" /\ v.s # <<>>
Categories == {EnumV(c) : c \in CategoryNames}

InvalidPrice == DataValidationError("Invalid price value", <<>>)
PriceErrors == {"Invalid price value", "Invalid type for price: "}

\* the field an error of deserialize is about
ErrorField(exc) ==
    CASE exc.msg = "Invalid product: missing " -> exc.arg[1]
      [] exc.msg \in PriceErrors -> "price"
      [] exc.msg = "Invalid type for boolean [available]: " -> "available"
      [] OTHER -> "category"

\* the defects deserialize is specified to report, by field
Defective(m, f) ==
    \/ f \notin DOMAIN m
    \/ f = "price" /\ ~(IsNumber(m[f]) \/ IsLiteral(m[f]))
    \/ f = "available" /\ m[f].t # "bool"
    \/ f = "category" /\ ~(m[f].t = "str" /\ m[f].s \in CategoryNames)
Defects(m) == {i \in 1..5 : Defective(m, FieldOrder[i])}
FirstDefect(m) == CHOOSE i \in Defects(m) : \A j \in Defects(m) : i <= j

\* C3: with name, description, price and available valid, a category string
\* that is none of the six member names makes deserialize fail with
\* "Invalid attribute: ..."; a record deserialize returns has a category that
\* is one of the six members.
C3_UnknownCategoryRejected ==
    dpc = "done" =>
       /\ (/\ Defects(data) = {5}
           /\ "category" \in DOMAIN data
           /\ data["category"].t = "str")
          => derr = DataValidationError("Invalid attribute: ", data["category"].s)
       /\ derr = NoExc => prod.category \in Categories

\* C4: deserialize classifies the price by its shape: an int, float or Decimal
\* is stored as the decimal of its string form; a string is stored as its
\* decimal when, stripped, it is a literal and fails with "Invalid price value"
\* otherwise; any other type (None, a bool, a list) fails with
\* "Invalid type for price: ...".
C4_PriceByShape ==
    (dpc = "done" /\ {"name", "description", "price"} \subseteq DOMAIN data) =>
       LET p == data["price"]
       IN CASE IsNumber(p) ->
                  prod.price = DecimalFromStr(PyStr(p)).v /\ derr.msg \notin PriceErrors
            [] p.t = "str" ->
                  IF IsLiteral(p)
                  THEN /\ prod.price = DecimalFromStr(Strip(p.s, Whitespace)).v
                       /\ derr.msg \notin PriceErrors
                  ELSE derr = InvalidPrice
            [] OTHER -> derr = DataValidationError("Invalid type for price: ", TypeStr(p))

\* C5: when several fields of the mapping are defective, the one error raised
\* is that of the first defective field in the order name, description, price,
\* available, category: a missing-key error exactly when that field is
\* missing, and no later field has been looked at.
C5_FirstDefectReported ==
    (dpc = "done" /\ Cardinality(Defects(data)) >= 2) =>
       LET i == FirstDefect(data)
       IN /\ derr.type = "DataValidationError"
          /\ ErrorField(derr) = FieldOrder[i]
          /\ (derr.msg = "Invalid product: missing ") = (FieldOrder[i] \notin DOMAIN data)
          /\ \A j \in (i + 1)..5 : prod[FieldOrder[j]] = NoneV

\* price, available and category are all defective and the error is the price's
C5_Witness ==
    /\ dpc = "done"
    /\ Defects(data) = {3, 4, 5}
    /\ "available" \in DOMAIN data
    /\ derr = InvalidPrice

\* C8: for a valid record r, deserialize(serialize(r)) succeeds and gives a
\* record with r's name, description, available and category and a price that
\* is decimal-equal to r's.
C8_RoundTrip ==
    (/\ dpc = "done" /\ orig # NewProduct
     /\ orig.price.t = "Decimal" /\ ~IsSpecial(orig.price)
     /\ orig.category \in Categories) =>
       /\ derr = NoExc
       /\ prod.name = orig.name
       /\ prod.description = orig.description
       /\ prod.price.t = "Decimal" /\ DecEq(prod.price, orig.price)
       /\ prod.available = orig.available
       /\ prod.category = orig.category

\* a record whose price prints in scientific notation has made the round trip
C8_Witness ==
    /\ dpc = "done"
    /\ orig.price = DecV(1, 5, 3)
    /\ orig.category = EnumV(TOOLS)
    /\ derr = NoExc
    /\ prod.price = orig.price

\* C9: a record deserialize returns has a name and a description that are
\* non-empty strings.
C9_NameAndDescriptionNonEmpty ==
    (dpc = "done" /\ derr = NoExc) =>
       NonEmptyString(prod.name) /\ NonEmptyString(prod.description)

====
